---- MODULE Spec2Model ----
(***************************************************************************)
(* Model of the RESP front end of MakoCon (mako/rust-lib/src/lib.rs):      *)
(* the command parser, the reply encoders, the bridge hand-off and the     *)
(* per-connection loop of handle_client_async with its MULTI / EXEC /      *)
(* DISCARD state (Spec), the same loop followed byte by byte through the   *)
(* frame decoder (DriverSpec), and the key-value server of                 *)
(* makocon/src/main.rs (KvSpec).                                           *)
(*                                                                         *)
(* Byte strings are TLA+ strings.  A TLA+ string cannot hold the byte 0,   *)
(* so the byte 0 is written NUL (one character, like the byte it stands    *)
(* for).                                                                   *)
(***************************************************************************)
EXTENDS Integers, Sequences, FiniteSets, TLC

VARIABLES
    in_transaction,   \* [Conns -> BOOLEAN]   lib.rs:101, one per connection task
    pipeline_buffer,  \* [Conns -> Seq(Cmd)]  lib.rs:100, one per connection task
    conn_state,       \* [Conns -> {"free", "serving"}]  a task runs handle_client_async or not
    poisoned,         \* DATABASE_MUTEX is poisoned (a holder panicked)
    acked,            \* [Conns -> Seq(Cmd)]  history: the commands the connection was
                      \* answered +QUEUED for since its last MULTI, EXEC or DISCARD
    last,             \* history: what the most recent step did and the state it found
    \* one connection of handle_client_async followed byte by byte (DriverSpec)
    stream,           \* history: all the bytes the client sends on the connection
    wire,             \* the bytes of stream the server has not read yet
    resp3,            \* the bytes held by the Resp3Handler, lib.rs:98
    pc,               \* where the task is: "read" (lib.rs:104), "decode" (lib.rs:111),
                      \* "closed" (it returned), "off" (not followed)
    frames,           \* history: the frames handed to parse_resp3_command, in order
    written,          \* history: the replies written to the stream, in order
    reads,            \* history: the reads that returned bytes
    writes,           \* history: the write_all calls made
    decode_failed,    \* history: next_frame has returned Err
    \* the key-value server of makocon/src/main.rs (KvSpec)
    db,               \* the HashMap behind the Mutex, main.rs:107: [KvKeys -> Option]
    db_poisoned,      \* the Mutex around db is poisoned
    kv_set,           \* history: per key, whether it was never set, or the latest SET
                      \* or DEL of it answered OK and the connection that sent it
    kv_last,          \* history: what the most recent call of kv_handler did
    \* the runtime of rust_init: tasks, blocking pool, DATABASE_MUTEX (PoolSpec)
    task,             \* per connection task, where it is: "off" (not followed),
                      \* "read" (lib.rs:104), "queued" (its spawn_blocking closure
                      \* waits for a pool worker), "started" (the closure runs on a
                      \* worker, at lib.rs:215), "engine" (it holds DATABASE_MUTEX,
                      \* lib.rs:217-247), "joined" (the closure returned, the task
                      \* is to write the reply), "failed" (the closure panicked),
                      \* "write" (write_all is pending), "closed" (it returned)
    nul,              \* per connection task, the command in hand carries a NUL
    database_mutex,   \* DATABASE_MUTEX, lib.rs:20: [held, poisoned]
    \* the pure functions of lib.rs applied to drawn inputs (CodecSpec)
    input,            \* the drawn input: a request frame or a list of operations
    output            \* what the function made of it; None before it is applied

server_vars == <<in_transaction, pipeline_buffer, conn_state, poisoned, acked, last>>
driver_vars == <<stream, wire, resp3, pc, frames, written, reads, writes, decode_failed>>
kv_vars == <<db, db_poisoned, kv_set, kv_last>>
pool_vars == <<task, nul, database_mutex>>
codec_vars == <<input, output>>
vars == <<server_vars, driver_vars, kv_vars, pool_vars, codec_vars>>

----------------------------------------------------------------------------
(* Bounds of the model *)

\* the most commands the model lets the connections hold queued at one time
MaxQueue == 2

\* the connection slots (each accepted stream gets its own task and locals)
Conns == {1, 2}

----------------------------------------------------------------------------
(* Option<T>: None is the empty sequence, Some(x) the one-element sequence *)

None == << >>
Some(x) == << x >>
IsSome(o) == o # None

\* stand-in for the byte 0
NUL == "@"

CRLF == "\r\n"

----------------------------------------------------------------------------
(* Strings *)

LowerAlpha == "abcdefghijklmnopqrstuvwxyz"
UpperAlpha == "ABCDEFGHIJKLMNOPQRSTUVWXYZ"

upper_char(ch) ==
    IF \E i \in 1..Len(LowerAlpha) : SubSeq(LowerAlpha, i, i) = ch
    THEN LET i == CHOOSE j \in 1..Len(LowerAlpha) : SubSeq(LowerAlpha, j, j) = ch
         IN  SubSeq(UpperAlpha, i, i)
    ELSE ch

RECURSIVE to_uppercase(_)
to_uppercase(s) ==
    IF Len(s) = 0 THEN ""
    ELSE upper_char(SubSeq(s, 1, 1)) \o to_uppercase(SubSeq(s, 2, Len(s)))

\* s contains pat
contains(s, pat) ==
    \E i \in 1..(Len(s) - Len(pat) + 1) : SubSeq(s, i, i + Len(pat) - 1) = pat

\* position of the first occurrence of pat in s (s contains pat)
find(s, pat) ==
    CHOOSE i \in 1..(Len(s) - Len(pat) + 1) :
        /\ SubSeq(s, i, i + Len(pat) - 1) = pat
        /\ \A j \in 1..(i - 1) : SubSeq(s, j, j + Len(pat) - 1) # pat

\* str::split: the pieces between the occurrences of pat, empty pieces kept
RECURSIVE split(_, _)
split(s, pat) ==
    IF ~contains(s, pat) THEN << s >>
    ELSE LET i == find(s, pat)
         IN  << SubSeq(s, 1, i - 1) >> \o split(SubSeq(s, i + Len(pat), Len(s)), pat)

\* [String]::join
RECURSIVE join(_, _)
join(strs, sep) ==
    IF Len(strs) = 0 THEN ""
    ELSE IF Len(strs) = 1 THEN strs[1]
    ELSE strs[1] \o sep \o join(Tail(strs), sep)

----------------------------------------------------------------------------
(* Frames: redis_protocol BytesFrame values, complete and well framed *)

Blob(s)    == [type |-> "BlobString",   data |-> s]
Simple(s)  == [type |-> "SimpleString", data |-> s]
Number(s)  == [type |-> "Number",       data |-> s]
Array(ps)  == [type |-> "Array",        data |-> ps]

\* the (operation, key, value) triple parse_resp3_command returns
Cmd(op, k, v) == [operation |-> op, key |-> k, value |-> v]

IsBlob(f) == f.type = "BlobString"

\* the arms "X if parts.len() >= 2" that take a key only
key_only(name, parts) ==
    IF IsBlob(parts[2]) THEN Some(Cmd(name, parts[2].data, "nil")) ELSE None

\* the arms "X if parts.len() >= 3" that take a key and one more string
key_value(name, parts) ==
    IF IsBlob(parts[2]) /\ IsBlob(parts[3])
    THEN Some(Cmd(name, parts[2].data, parts[3].data))
    ELSE None

\* the blob strings of parts[from..], in order (the loops over &parts[2..])
RECURSIVE collect_blobs(_, _)
collect_blobs(parts, from) ==
    IF from > Len(parts) THEN << >>
    ELSE (IF IsBlob(parts[from]) THEN << parts[from].data >> ELSE << >>)
         \o collect_blobs(parts, from + 1)

\* LPUSH, RPUSH, SADD, HMGET
variadic(name, parts) ==
    IF IsBlob(parts[2])
    THEN LET values == collect_blobs(parts, 3)
         IN  IF values # << >>
             THEN Some(Cmd(name, parts[2].data, join(values, ",")))
             ELSE None
    ELSE None

lrange(parts) ==
    IF IsBlob(parts[2]) /\ IsBlob(parts[3]) /\ IsBlob(parts[4])
    THEN Some(Cmd("lrange", parts[2].data, parts[3].data \o "," \o parts[4].data))
    ELSE None

hset(parts) ==
    IF IsBlob(parts[2]) /\ IsBlob(parts[3]) /\ IsBlob(parts[4])
    THEN Some(Cmd("hset", parts[2].data, parts[3].data \o ":" \o parts[4].data))
    ELSE None

no_args(name) == Some(Cmd(name, "nil", "nil"))

\* lib.rs:368-740.  The frames of the model are complete, so into_complete_frame
\* (lib.rs:369-372) succeeds.
parse_resp3_command(frame) ==
    IF frame.type # "Array" THEN None
    ELSE LET parts == frame.data
             n     == Len(parts)
         IN
         IF n = 0 \/ parts[1].type \notin {"BlobString", "SimpleString"} THEN None
         ELSE LET cmd == to_uppercase(parts[1].data) IN
              CASE cmd = "GET"       /\ n >= 2 -> key_only("get", parts)
                [] cmd = "SET"       /\ n >= 3 -> key_value("set", parts)
                [] cmd = "INCR"      /\ n >= 2 -> key_only("incr", parts)
                [] cmd = "DECR"      /\ n >= 2 -> key_only("decr", parts)
                [] cmd = "INCRBY"    /\ n >= 3 -> key_value("incrby", parts)
                [] cmd = "DECRBY"    /\ n >= 3 -> key_value("decrby", parts)
                [] cmd = "LPUSH"     /\ n >= 3 -> variadic("lpush", parts)
                [] cmd = "RPUSH"     /\ n >= 3 -> variadic("rpush", parts)
                [] cmd = "LPOP"      /\ n >= 2 -> key_only("lpop", parts)
                [] cmd = "RPOP"      /\ n >= 2 -> key_only("rpop", parts)
                [] cmd = "LLEN"      /\ n >= 2 -> key_only("llen", parts)
                [] cmd = "LRANGE"    /\ n >= 4 -> lrange(parts)
                [] cmd = "HSET"      /\ n >= 4 -> hset(parts)
                [] cmd = "HGET"      /\ n >= 3 -> key_value("hget", parts)
                [] cmd = "HGETALL"   /\ n >= 2 -> key_only("hgetall", parts)
                [] cmd = "HDEL"      /\ n >= 3 -> key_value("hdel", parts)
                [] cmd = "HEXISTS"   /\ n >= 3 -> key_value("hexists", parts)
                [] cmd = "HMGET"     /\ n >= 3 -> variadic("hmget", parts)
                [] cmd = "PING"                -> no_args("ping")
                [] cmd = "DEL"       /\ n >= 2 -> key_only("del", parts)
                [] cmd = "EXISTS"    /\ n >= 2 -> key_only("exists", parts)
                [] cmd = "EXPIRE"    /\ n >= 3 -> key_value("expire", parts)
                [] cmd = "TTL"       /\ n >= 2 -> key_only("ttl", parts)
                [] cmd = "KEYS"      /\ n >= 2 -> key_only("keys", parts)
                [] cmd = "SADD"      /\ n >= 3 -> variadic("sadd", parts)
                [] cmd = "SMEMBERS"  /\ n >= 2 -> key_only("smembers", parts)
                [] cmd = "SISMEMBER" /\ n >= 3 -> key_value("sismember", parts)
                [] cmd = "SINTER"    /\ n >= 3 -> key_value("sinter", parts)
                [] cmd = "SDIFF"     /\ n >= 3 -> key_value("sdiff", parts)
                [] cmd = "SCARD"     /\ n >= 2 -> key_only("scard", parts)
                [] cmd = "MULTI"               -> no_args("multi")
                [] cmd = "EXEC"                -> no_args("exec")
                [] cmd = "DISCARD"             -> no_args("discard")
                [] cmd = "WATCH"     /\ n >= 2 -> key_only("watch", parts)
                [] cmd = "UNWATCH"             -> no_args("unwatch")
                [] OTHER                       -> None

----------------------------------------------------------------------------
(* Reply encoders *)

bulk(s) == "$" \o ToString(Len(s)) \o CRLF \o s \o CRLF

RECURSIVE bulk_each(_)
bulk_each(strs) ==
    IF Len(strs) = 0 THEN "" ELSE bulk(strs[1]) \o bulk_each(Tail(strs))

\* one element of an EXEC reply (lib.rs:260-266)
exec_element(part) == IF Len(part) = 0 THEN "$-1\r\n" ELSE bulk(part)

RECURSIVE exec_elements(_)
exec_elements(parts) ==
    IF Len(parts) = 0 THEN ""
    ELSE exec_element(parts[1]) \o exec_elements(Tail(parts))

format_exec_response_from_batch(batch_result) ==
    IF Len(batch_result) = 0 THEN "*0\r\n"
    ELSE LET parts == split(batch_result, CRLF)
         IN  "*" \o ToString(Len(parts)) \o CRLF \o exec_elements(parts)

\* "field:value" pairs of HGETALL; a pair without ':' contributes nothing
RECURSIVE hgetall_pairs(_)
hgetall_pairs(pairs) ==
    IF Len(pairs) = 0 THEN ""
    ELSE (IF contains(pairs[1], ":")
          THEN LET pos == find(pairs[1], ":")
               IN  bulk(SubSeq(pairs[1], 1, pos - 1))
                   \o bulk(SubSeq(pairs[1], pos + 1, Len(pairs[1])))
          ELSE "")
         \o hgetall_pairs(Tail(pairs))

RECURSIVE hmget_values(_)
hmget_values(values) ==
    IF Len(values) = 0 THEN ""
    ELSE (IF values[1] = "NULL" THEN "$-1\r\n" ELSE bulk(values[1]))
         \o hmget_values(Tail(values))

\* "*<n>\r\n" and the comma-separated members as bulk strings
array_of_csv(result) ==
    IF Len(result) = 0 THEN "*0\r\n"
    ELSE LET items == split(result, ",")
         IN  "*" \o ToString(Len(items)) \o CRLF \o bulk_each(items)

IntegerOps ==
    {"exists", "expire", "ttl", "llen", "lpush", "rpush", "incr", "decr", "incrby",
     "decrby", "del", "hset", "hdel", "hexists", "sadd", "sismember", "scard"}

format_response(operation, response) ==
    IF operation = "ping" THEN "+PONG\r\n"
    ELSE IF operation \in {"multi", "discard", "watch", "unwatch"}
    THEN (IF response.success THEN "+" \o response.result \o CRLF
          ELSE "-ERR transaction command failed\r\n")
    ELSE IF response.result = "QUEUED" THEN "+QUEUED\r\n"
    ELSE IF operation = "keys" /\ response.success THEN array_of_csv(response.result)
    ELSE IF operation = "hgetall" /\ response.success
    THEN (IF Len(response.result) = 0 THEN "*0\r\n"
          ELSE LET pairs == split(response.result, ",")
               IN  "*" \o ToString(Len(pairs) * 2) \o CRLF \o hgetall_pairs(pairs))
    ELSE IF operation = "hmget" /\ response.success
    THEN (IF Len(response.result) = 0 THEN "*0\r\n"
          ELSE LET values == split(response.result, ",")
               IN  "*" \o ToString(Len(values)) \o CRLF \o hmget_values(values))
    ELSE IF operation \in {"smembers", "sinter", "sdiff"}
    THEN (IF response.success THEN array_of_csv(response.result) ELSE "*0\r\n")
    ELSE IF operation \in IntegerOps
    THEN (IF response.success THEN ":" \o response.result \o CRLF
          ELSE "-ERR command failed\r\n")
    ELSE IF operation = "invalid" THEN "-ERR invalid command format\r\n"
    ELSE IF response.success
    THEN (IF Len(response.result) = 0 THEN "$-1\r\n" ELSE bulk(response.result))
    ELSE "-ERR not found\r\n"

----------------------------------------------------------------------------
(* The bridge hand-off: call_cpp_batch_operation *)

\* what one operation of a batch may produce in the engine's result text
PerOpResults == {"", "OK"}

RECURSIVE batch_data(_)
batch_data(operations) ==
    IF Len(operations) = 0 THEN ""
    ELSE LET o == operations[Len(operations)]
             front == SubSeq(operations, 1, Len(operations) - 1)
         IN  batch_data(front)
             \o (IF Len(front) > 0 THEN CRLF ELSE "")
             \o o.operation \o CRLF \o o.key \o CRLF \o o.value

\* what cpp_execute_batch_request_sync may hand back for a batch of n operations:
\* its success flag and result pointer (None is the null pointer); the result
\* text holds the operations' results separated by "\r\n" (lib.rs:252)
EngineReturns(n) ==
    IF n = 0 THEN {[success |-> FALSE, result_ptr |-> None]}
    ELSE [success : BOOLEAN,
          result_ptr : {None} \cup {Some(join(rs, CRLF)) : rs \in [1..n -> PerOpResults]}]

\* the calls of cpp_free_string made after the engine handed back eng: one,
\* inside the branch taken when success is true and result_ptr is not null
\* (lib.rs:239-242), none in the other branch (lib.rs:243-245)
cpp_free_string_calls(eng) ==
    IF eng.success /\ IsSome(eng.result_ptr) THEN 1 ELSE 0

\* The outcome of one call.  panicked: the blocking task unwound (lock().unwrap()
\* on a poisoned mutex, or CString::new(..).unwrap() on text holding the byte 0);
\* poisons: it unwound while holding DATABASE_MUTEX; freed: how many times it
\* called cpp_free_string.
call_cpp_batch_operation(operations, eng, mutex_poisoned) ==
    IF mutex_poisoned
    THEN [operations |-> operations, panicked |-> TRUE, poisons |-> FALSE,
          freed |-> 0, response |-> [result |-> "", success |-> FALSE]]
    ELSE IF contains(batch_data(operations), NUL)
    THEN [operations |-> operations, panicked |-> TRUE, poisons |-> TRUE,
          freed |-> 0, response |-> [result |-> "", success |-> FALSE]]
    ELSE [operations |-> operations, panicked |-> FALSE, poisons |-> FALSE,
          freed |-> cpp_free_string_calls(eng),
          response |->
              [result  |-> IF eng.success /\ IsSome(eng.result_ptr)
                           THEN eng.result_ptr[1] ELSE "",
               success |-> eng.success]]

----------------------------------------------------------------------------
(* handle_client_async: what the loop body does with one decoded frame.     *)
(* Each branch gives the locals after it, the replies written to the        *)
(* stream, the bridge calls made, and whether the function returned Err     *)
(* (the `?` after a spawn_blocking whose task panicked).                    *)

Outcome(open, buf, replies, calls, err) ==
    [open |-> open, buf |-> buf, replies |-> replies, calls |-> calls, err |-> err]

\* lib.rs:116-120
on_multi(open, buf) ==
    Outcome(TRUE, << >>, << "+OK\r\n" >>, << >>, FALSE)

\* on_exec with the buffer cleared before it is cloned: nothing is left to submit
on_exec_clear_first(open, buf, eng, mutex_poisoned) ==
    Outcome(FALSE, << >>, << "*0\r\n" >>, << >>, FALSE)

\* on_exec without pipeline_buffer.clear(): the batch is submitted and kept
on_exec_keep_queue(open, buf, eng, mutex_poisoned) ==
    IF buf # << >>
    THEN LET call == call_cpp_batch_operation(buf, eng, mutex_poisoned)
         IN  IF call.panicked
             THEN Outcome(FALSE, buf, << >>, << call >>, TRUE)
             ELSE Outcome(FALSE, buf,
                          << format_exec_response_from_batch(call.response.result) >>,
                          << call >>, FALSE)
    ELSE Outcome(FALSE, buf, << "*0\r\n" >>, << >>, FALSE)

\* on_exec without the is_empty test: an empty queue is submitted as well
on_exec_submit_empty(open, buf, eng, mutex_poisoned) ==
    LET call == call_cpp_batch_operation(buf, eng, mutex_poisoned)
    IN  IF call.panicked
        THEN Outcome(FALSE, << >>, << >>, << call >>, TRUE)
        ELSE Outcome(FALSE, << >>,
                     << format_exec_response_from_batch(call.response.result) >>,
                     << call >>, FALSE)

\* lib.rs:121-141
on_exec(open, buf, eng, mutex_poisoned) ==
    IF buf # << >>
    THEN LET call == call_cpp_batch_operation(buf, eng, mutex_poisoned)
         IN  IF call.panicked
             THEN Outcome(FALSE, << >>, << >>, << call >>, TRUE)
             ELSE Outcome(FALSE, << >>,
                          << format_exec_response_from_batch(call.response.result) >>,
                          << call >>, FALSE)
    ELSE Outcome(FALSE, << >>, << "*0\r\n" >>, << >>, FALSE)

\* on_discard without pipeline_buffer.clear()
on_discard_keep_queue(open, buf) ==
    Outcome(FALSE, buf, << "+OK\r\n" >>, << >>, FALSE)

\* lib.rs:142-146
on_discard(open, buf) ==
    Outcome(FALSE, << >>, << "+OK\r\n" >>, << >>, FALSE)

\* lib.rs:147-162
on_watch(open, buf, cmd, eng, mutex_poisoned) ==
    LET call == call_cpp_batch_operation(<< cmd >>, eng, mutex_poisoned)
    IN  IF call.panicked
        THEN Outcome(open, buf, << >>, << call >>, TRUE)
        ELSE Outcome(open, buf,
                     << IF call.response.success THEN "+OK\r\n"
                        ELSE "-ERR watch failed\r\n" >>,
                     << call >>, FALSE)

\* lib.rs:163-178
on_unwatch(open, buf, cmd, eng, mutex_poisoned) ==
    LET call == call_cpp_batch_operation(<< cmd >>, eng, mutex_poisoned)
    IN  IF call.panicked
        THEN Outcome(open, buf, << >>, << call >>, TRUE)
        ELSE Outcome(open, buf,
                     << IF call.response.success THEN "+OK\r\n"
                        ELSE "-ERR unwatch failed\r\n" >>,
                     << call >>, FALSE)

\* on_queue inserting at the front of the buffer
on_queue_front(open, buf, cmd) ==
    Outcome(open, << cmd >> \o buf, << "+QUEUED\r\n" >>, << >>, FALSE)

\* lib.rs:182-184
on_queue(open, buf, cmd) ==
    Outcome(open, Append(buf, cmd), << "+QUEUED\r\n" >>, << >>, FALSE)

\* lib.rs:185-198
on_immediate(open, buf, cmd, eng, mutex_poisoned) ==
    LET call == call_cpp_batch_operation(<< cmd >>, eng, mutex_poisoned)
    IN  IF call.panicked
        THEN Outcome(open, buf, << >>, << call >>, TRUE)
        ELSE Outcome(open, buf, << format_response(cmd.operation, call.response) >>,
                     << call >>, FALSE)

\* on_invalid that writes nothing: the rejected command is dropped silently
on_invalid_silent(open, buf) ==
    Outcome(open, buf, << >>, << >>, FALSE)

\* on_invalid that also abandons the transaction (reset on error)
on_invalid_reset(open, buf) ==
    Outcome(FALSE, << >>, << "-ERR invalid command format\r\n" >>, << >>, FALSE)

\* lib.rs:199-201
on_invalid(open, buf) ==
    Outcome(open, buf, << "-ERR invalid command format\r\n" >>, << >>, FALSE)

\* lib.rs:113-201, parsed being parse_resp3_command(frame)
handle_frame(open, buf, parsed, eng, mutex_poisoned) ==
    IF IsSome(parsed)
    THEN LET cmd == parsed[1] IN
         IF cmd.operation = "multi" THEN on_multi(open, buf)
         ELSE IF cmd.operation = "exec" THEN on_exec(open, buf, eng, mutex_poisoned)
         ELSE IF cmd.operation = "discard" THEN on_discard(open, buf)
         ELSE IF cmd.operation = "watch" THEN on_watch(open, buf, cmd, eng, mutex_poisoned)
         ELSE IF cmd.operation = "unwatch" THEN on_unwatch(open, buf, cmd, eng, mutex_poisoned)
         ELSE IF open THEN on_queue(open, buf, cmd)
         ELSE on_immediate(open, buf, cmd, eng, mutex_poisoned)
    ELSE on_invalid(open, buf)

\* the number of operations the frame makes the handler submit to the bridge
submitted(open, buf, parsed) ==
    IF ~IsSome(parsed) THEN 0
    ELSE LET op == parsed[1].operation IN
         IF op = "exec" THEN Len(buf)
         ELSE IF op \in {"multi", "discard"} THEN 0
         ELSE IF op \in {"watch", "unwatch"} THEN 1
         ELSE IF open THEN 0 ELSE 1

\* the frame would be pushed onto pipeline_buffer
would_queue(open, parsed) ==
    /\ IsSome(parsed)
    /\ open
    /\ parsed[1].operation \notin {"multi", "exec", "discard", "watch", "unwatch"}

----------------------------------------------------------------------------
(* The frames clients send in the model *)

F_MULTI     == Array(<< Blob("MULTI") >>)
F_EXEC      == Array(<< Blob("EXEC") >>)
F_DISCARD   == Array(<< Blob("DISCARD") >>)
F_PING      == Array(<< Blob("ping") >>)
F_SET       == Array(<< Blob("SET"), Blob("a"), Blob("1") >>)
F_GET       == Array(<< Blob("get"), Blob("a") >>)
F_WATCH     == Array(<< Blob("WATCH"), Blob("a") >>)
F_WATCH_NUL == Array(<< Blob("watch"), Blob(NUL) >>)
F_UNWATCH   == Array(<< Simple("UNWATCH") >>)
F_FOO       == Array(<< Blob("FOO") >>)
F_GET_SHORT == Array(<< Blob("GET") >>)
F_GET_TYPE  == Array(<< Blob("GET"), Number("1") >>)

Frames ==
    {F_MULTI, F_EXEC, F_DISCARD, F_PING, F_SET, F_GET, F_WATCH, F_WATCH_NUL, F_UNWATCH,
     F_FOO, F_GET_SHORT, F_GET_TYPE}

NoFrame == [type |-> "None", data |-> << >>]

\* parse_resp3_command on the frames of the model, computed once
Parsed == [f \in Frames |-> parse_resp3_command(f)]

\* EngineReturns for the batch sizes of the model, computed once
EngineReturnsOf == [n \in 0..(MaxQueue + 1) |-> EngineReturns(n)]

----------------------------------------------------------------------------
(* The server *)

Observation(event, c, frame, was_open, was_queue, was_acked, replies, calls, returned) ==
    [event |-> event, conn |-> c, frame |-> frame, was_open |-> was_open,
     was_queue |-> was_queue, was_acked |-> was_acked, replies |-> replies,
     calls |-> calls, returned |-> returned]

Range(seq) == {seq[i] : i \in 1..Len(seq)}

\* the commands held in the connections' queues, all together
RECURSIVE queued_total(_)
queued_total(S) ==
    IF S = {} THEN 0
    ELSE LET c == CHOOSE x \in S : TRUE
         IN  Len(pipeline_buffer[c]) + queued_total(S \ {c})

\* acked after a frame: what the client saw, from the command and its reply alone
acked_after(was_acked, parsed, replies) ==
    IF IsSome(parsed) /\ parsed[1].operation \in {"multi", "exec", "discard"}
    THEN << >>
    ELSE IF IsSome(parsed) /\ replies = << "+QUEUED\r\n" >>
    THEN Append(was_acked, parsed[1])
    ELSE was_acked

\* the variables of DriverSpec while no connection is followed byte by byte
DriverOff ==
    /\ stream = ""
    /\ wire = ""
    /\ resp3 = ""
    /\ pc = "off"
    /\ frames = << >>
    /\ written = << >>
    /\ reads = 0
    /\ writes = 0
    /\ decode_failed = FALSE

\* the keys clients of the key-value server use; NonUtf8 stands for a byte
\* string that is not valid UTF-8 (one character, like NUL)
NonUtf8 == "#"
KvKeys == {"a", "b", NonUtf8}
KvValues == {"1", "2"}

NoCall == [frame |-> NoFrame, conn |-> 0, writes |-> << >>, panicked |-> FALSE,
           was_set |-> << >>]

\* the variables of KvSpec before the key-value server has handled anything
KvOff ==
    /\ db = [k \in KvKeys |-> None]
    /\ db_poisoned = FALSE
    /\ kv_set = [k \in KvKeys |-> [state |-> "never", value |-> "", conn |-> 0]]
    /\ kv_last = NoCall

\* the tasks the model follows through the runtime: one more than the pool has
\* workers, so that the pool can be full with a closure still waiting
MAX_BLOCKING_THREADS == 4
Tasks == 1 .. (MAX_BLOCKING_THREADS + 1)

\* the variables of PoolSpec while the runtime is not followed
PoolOff ==
    /\ task = [t \in Tasks |-> "off"]
    /\ nul = [t \in Tasks |-> FALSE]
    /\ database_mutex = [held |-> FALSE, poisoned |-> FALSE]

\* the variables of CodecSpec while no input is drawn
CodecOff ==
    /\ input = None
    /\ output = None

Init ==
    /\ in_transaction = [c \in Conns |-> FALSE]
    /\ pipeline_buffer = [c \in Conns |-> << >>]
    /\ conn_state = [c \in Conns |-> "free"]
    /\ poisoned = FALSE
    /\ acked = [c \in Conns |-> << >>]
    /\ last = Observation("start", 0, NoFrame, FALSE, << >>, << >>, << >>, << >>, "no")
    /\ DriverOff
    /\ KvOff
    /\ PoolOff
    /\ CodecOff

\* start_async_server accepts a stream and spawns handle_client_async on it
\* (lib.rs:69-78); the task starts with the locals of lib.rs:98-101
Accept(c) ==
    /\ conn_state[c] = "free"
    /\ conn_state' = [conn_state EXCEPT ![c] = "serving"]
    /\ in_transaction' = [in_transaction EXCEPT ![c] = FALSE]
    /\ pipeline_buffer' = [pipeline_buffer EXCEPT ![c] = << >>]
    /\ acked' = [acked EXCEPT ![c] = << >>]
    /\ last' = Observation("accept", c, NoFrame, FALSE, << >>, << >>, << >>, << >>, "no")
    /\ UNCHANGED <<poisoned, driver_vars, kv_vars, pool_vars, codec_vars>>

\* the loop body for one frame of connection c
HandleFrame(c) ==
    /\ conn_state[c] = "serving"
    /\ \E frame \in Frames :
        /\ would_queue(in_transaction[c], Parsed[frame])
               => queued_total(Conns) < MaxQueue
        /\ \E eng \in EngineReturnsOf[submitted(in_transaction[c], pipeline_buffer[c],
                                                Parsed[frame])] :
            \E out \in {handle_frame(in_transaction[c], pipeline_buffer[c], Parsed[frame],
                                     eng, poisoned)} :
                /\ in_transaction' =
                       [in_transaction EXCEPT ![c] = IF out.err THEN FALSE ELSE out.open]
                /\ pipeline_buffer' =
                       [pipeline_buffer EXCEPT ![c] = IF out.err THEN << >> ELSE out.buf]
                /\ conn_state' =
                       [conn_state EXCEPT ![c] = IF out.err THEN "free" ELSE "serving"]
                /\ poisoned' = (poisoned \/ \E i \in 1..Len(out.calls) : out.calls[i].poisons)
                /\ acked' =
                       [acked EXCEPT ![c] = IF out.err THEN << >>
                                            ELSE acked_after(acked[c], Parsed[frame],
                                                             out.replies)]
                /\ last' = Observation("frame", c, frame, in_transaction[c],
                                       pipeline_buffer[c], acked[c], out.replies,
                                       out.calls, IF out.err THEN "err" ELSE "no")
    /\ UNCHANGED <<driver_vars, kv_vars, pool_vars, codec_vars>>

\* read returns Ok(0): the loop breaks and the task returns Ok (lib.rs:105, 208)
ReadEof(c) ==
    /\ conn_state[c] = "serving"
    /\ conn_state' = [conn_state EXCEPT ![c] = "free"]
    /\ in_transaction' = [in_transaction EXCEPT ![c] = FALSE]
    /\ pipeline_buffer' = [pipeline_buffer EXCEPT ![c] = << >>]
    /\ acked' = [acked EXCEPT ![c] = << >>]
    /\ last' = Observation("eof", c, NoFrame, in_transaction[c], pipeline_buffer[c],
                           acked[c], << >>, << >>, "ok")
    /\ UNCHANGED <<poisoned, driver_vars, kv_vars, pool_vars, codec_vars>>

\* read returns Err: the task returns Err (lib.rs:107)
ReadError(c) ==
    /\ conn_state[c] = "serving"
    /\ conn_state' = [conn_state EXCEPT ![c] = "free"]
    /\ in_transaction' = [in_transaction EXCEPT ![c] = FALSE]
    /\ pipeline_buffer' = [pipeline_buffer EXCEPT ![c] = << >>]
    /\ acked' = [acked EXCEPT ![c] = << >>]
    /\ last' = Observation("ioerr", c, NoFrame, in_transaction[c], pipeline_buffer[c],
                           acked[c], << >>, << >>, "err")
    /\ UNCHANGED <<poisoned, driver_vars, kv_vars, pool_vars, codec_vars>>

Next ==
    \E c \in Conns :
        \/ Accept(c)
        \/ HandleFrame(c)
        \/ ReadEof(c)
        \/ ReadError(c)

Spec == Init /\ [][Next]_vars

TypeOK ==
    /\ in_transaction \in [Conns -> BOOLEAN]
    /\ conn_state \in [Conns -> {"free", "serving"}]
    /\ poisoned \in BOOLEAN
    /\ queued_total(Conns) <= MaxQueue

----------------------------------------------------------------------------
(* The frame decoder Resp3Handler (lib.rs:6-7, 98, 106, 111), a module of   *)
(* its own (resp3_handler), modelled from its documented contract:          *)
(* read_bytes appends to an internal buffer; next_frame decodes one         *)
(* complete frame from the front of the buffer and leaves the rest, reports *)
(* "no frame yet" on an incomplete prefix, and fails on bytes that start no *)
(* frame.  A failure leaves the buffer as it is.  The clients of the model  *)
(* send simple strings, numbers, blob strings and arrays; any other first   *)
(* byte they send is one that starts no frame.                              *)

Digits == "0123456789"

is_digit(ch) == \E i \in 1..Len(Digits) : SubSeq(Digits, i, i) = ch

digit_value(ch) == (CHOOSE i \in 1..Len(Digits) : SubSeq(Digits, i, i) = ch) - 1

\* s is one or more decimal digits
is_number(s) == Len(s) > 0 /\ \A i \in 1..Len(s) : is_digit(SubSeq(s, i, i))

RECURSIVE to_number(_)
to_number(s) ==
    IF Len(s) = 0 THEN 0
    ELSE to_number(SubSeq(s, 1, Len(s) - 1)) * Len(Digits)
         + digit_value(SubSeq(s, Len(s), Len(s)))

Decoded(frame, rest) == [kind |-> "frame", frame |-> frame, rest |-> rest]
NoFrameYet == [kind |-> "none", frame |-> NoFrame, rest |-> ""]
ProtocolError == [kind |-> "err", frame |-> NoFrame, rest |-> ""]

\* one frame from the front of s
RECURSIVE decode_frame(_)
RECURSIVE decode_elements(_, _, _)

decode_frame(s) ==
    IF Len(s) = 0 THEN NoFrameYet
    ELSE LET tag == SubSeq(s, 1, 1) IN
         IF tag \notin {"+", ":", "$", "*"} THEN ProtocolError
         ELSE IF ~contains(s, CRLF) THEN NoFrameYet
         ELSE LET eol  == find(s, CRLF)
                  line == SubSeq(s, 2, eol - 1)
                  rest == SubSeq(s, eol + Len(CRLF), Len(s))
              IN
              IF tag = "+" THEN Decoded(Simple(line), rest)
              ELSE IF ~is_number(line) THEN ProtocolError
              ELSE IF tag = ":" THEN Decoded(Number(line), rest)
              ELSE IF tag = "$"
              THEN LET n == to_number(line) IN
                   IF Len(rest) < n + Len(CRLF) THEN NoFrameYet
                   ELSE IF SubSeq(rest, n + 1, n + Len(CRLF)) # CRLF THEN ProtocolError
                   ELSE Decoded(Blob(SubSeq(rest, 1, n)),
                                SubSeq(rest, n + Len(CRLF) + 1, Len(rest)))
              ELSE decode_elements(rest, to_number(line), << >>)

\* the n elements of an array whose header has been read, elems decoded so far
decode_elements(s, n, elems) ==
    IF n = 0 THEN Decoded(Array(elems), s)
    ELSE LET d == decode_frame(s) IN
         IF d.kind # "frame" THEN d
         ELSE decode_elements(d.rest, n - 1, Append(elems, d.frame))

\* Resp3Handler::read_bytes
read_bytes(buffer, bytes) == buffer \o bytes

\* Resp3Handler::next_frame: Ok(Some(frame)), Ok(None) or Err
next_frame(buffer) == decode_frame(buffer)

\* the frames next_frame yields from buffer when called until it yields none
RECURSIVE all_frames(_)
all_frames(buffer) ==
    LET d == next_frame(buffer) IN
    IF d.kind # "frame" THEN << >>
    ELSE << d.frame >> \o all_frames(d.rest)

----------------------------------------------------------------------------
(* handle_client_async followed byte by byte on one connection              *)

\* the requests of the byte streams, as the client encodes them
B_PING      == "*1\r\n+PING\r\n"
B_MULTI     == "*1\r\n+MULTI\r\n"
B_EXEC      == "*1\r\n$4\r\nEXEC\r\n"
B_FOO       == "*1\r\n+FOO\r\n"
B_GET       == "*2\r\n+GET\r\n$1\r\na\r\n"
B_WATCH_NUL == "*2\r\n+WATCH\r\n$1\r\n" \o NUL \o CRLF
\* a byte that starts no frame
B_GARBAGE   == "?"

\* what a client sends over the life of its connection
Streams ==
    {B_PING \o B_PING,
     B_PING \o B_FOO \o B_MULTI,
     B_MULTI \o B_GET \o B_EXEC,
     B_FOO \o B_GARBAGE \o B_PING,
     B_WATCH_NUL \o B_PING}

\* the connection followed
Client == CHOOSE c \in Conns : \A d \in Conns : c <= d

\* the bytes of stream the server has read
received == SubSeq(stream, 1, Len(stream) - Len(wire))

\* `while let` with one iteration at most: the loop is left after a frame
after_next_frame_once(kind) == "read"

\* where `while let Ok(opt) = resp3.next_frame()` (lib.rs:111-112, 202-205) goes
\* after next_frame returned kind and the body ran: round again after a frame,
\* out to the read after Ok(None) (break) and after Err (the pattern fails)
after_next_frame(kind) == IF kind = "frame" THEN "decode" ELSE "read"

DriverInit ==
    /\ in_transaction = [c \in Conns |-> FALSE]
    /\ pipeline_buffer = [c \in Conns |-> << >>]
    /\ conn_state = [c \in Conns |-> IF c = Client THEN "serving" ELSE "free"]
    /\ poisoned = FALSE
    /\ acked = [c \in Conns |-> << >>]
    /\ last = Observation("accept", Client, NoFrame, FALSE, << >>, << >>, << >>, << >>, "no")
    /\ stream \in Streams
    /\ wire = stream
    /\ resp3 = ""
    /\ pc = "read"
    /\ frames = << >>
    /\ written = << >>
    /\ reads = 0
    /\ writes = 0
    /\ decode_failed = FALSE
    /\ KvOff
    /\ PoolOff
    /\ CodecOff

\* stream.read returns Ok(n), n > 0: the bytes go to the decoder (lib.rs:104-106)
DriverRead ==
    /\ pc = "read"
    /\ \E n \in 1..Len(wire) :
        /\ resp3' = read_bytes(resp3, SubSeq(wire, 1, n))
        /\ wire' = SubSeq(wire, n + 1, Len(wire))
    /\ reads' = reads + 1
    /\ pc' = "decode"
    /\ UNCHANGED <<server_vars, stream, frames, written, writes, decode_failed, kv_vars, pool_vars, codec_vars>>

\* stream.read returns Ok(0) after the client's last byte: the task returns Ok
\* (lib.rs:105, 208)
DriverReadEof ==
    /\ pc = "read"
    /\ wire = ""
    /\ pc' = "closed"
    /\ conn_state' = [conn_state EXCEPT ![Client] = "free"]
    /\ in_transaction' = [in_transaction EXCEPT ![Client] = FALSE]
    /\ pipeline_buffer' = [pipeline_buffer EXCEPT ![Client] = << >>]
    /\ UNCHANGED <<poisoned, acked, last, stream, wire, resp3, frames, written, reads,
                   writes, decode_failed, kv_vars, pool_vars, codec_vars>>

\* next_frame returns Ok(Some(frame)): the loop body runs on it (lib.rs:112-201);
\* every branch makes one write_all unless its bridge task panicked
DriverFrame ==
    /\ pc = "decode"
    /\ \E d \in {next_frame(resp3)} :
        /\ d.kind = "frame"
        /\ \E parsed \in {parse_resp3_command(d.frame)} :
            \E eng \in EngineReturnsOf[submitted(in_transaction[Client],
                                                 pipeline_buffer[Client], parsed)] :
                \E out \in {handle_frame(in_transaction[Client], pipeline_buffer[Client],
                                         parsed, eng, poisoned)} :
                    /\ in_transaction' = [in_transaction EXCEPT
                                             ![Client] = IF out.err THEN FALSE ELSE out.open]
                    /\ pipeline_buffer' = [pipeline_buffer EXCEPT
                                              ![Client] = IF out.err THEN << >> ELSE out.buf]
                    /\ conn_state' = [conn_state EXCEPT
                                         ![Client] = IF out.err THEN "free" ELSE "serving"]
                    /\ poisoned' =
                           (poisoned \/ \E i \in 1..Len(out.calls) : out.calls[i].poisons)
                    /\ written' = written \o out.replies
                    /\ writes' = writes + Len(out.replies)
                    /\ pc' = IF out.err THEN "closed" ELSE after_next_frame(d.kind)
        /\ resp3' = d.rest
        /\ frames' = Append(frames, d.frame)
    /\ UNCHANGED <<acked, last, stream, wire, reads, decode_failed, kv_vars, pool_vars, codec_vars>>

\* next_frame returns Ok(None): break (lib.rs:202-204)
DriverNoFrame ==
    /\ pc = "decode"
    /\ \E d \in {next_frame(resp3)} :
        /\ d.kind = "none"
        /\ pc' = after_next_frame(d.kind)
    /\ UNCHANGED <<server_vars, stream, wire, resp3, frames, written, reads, writes,
                   decode_failed, kv_vars, pool_vars, codec_vars>>

\* next_frame returns Err: `while let Ok(..)` does not match and the loop is left
\* (lib.rs:111); nothing is written and the task goes on to the next read
DriverDecodeErr ==
    /\ pc = "decode"
    /\ \E d \in {next_frame(resp3)} :
        /\ d.kind = "err"
        /\ pc' = after_next_frame(d.kind)
    /\ decode_failed' = TRUE
    /\ UNCHANGED <<server_vars, stream, wire, resp3, frames, written, reads, writes,
                   kv_vars, pool_vars, codec_vars>>

DriverNext ==
    \/ DriverRead
    \/ DriverReadEof
    \/ DriverFrame
    \/ DriverNoFrame
    \/ DriverDecodeErr

DriverSpec == DriverInit /\ [][DriverNext]_vars

----------------------------------------------------------------------------
(* The key-value server of makocon/src/main.rs: kv_handler over the shared  *)
(* HashMap.  The calls it makes on the connection (write_bulk, write_null,  *)
(* write_string, write_error) are recorded as calls.                        *)

lower_char(ch) ==
    IF \E i \in 1..Len(UpperAlpha) : SubSeq(UpperAlpha, i, i) = ch
    THEN LET i == CHOOSE j \in 1..Len(UpperAlpha) : SubSeq(UpperAlpha, j, j) = ch
         IN  SubSeq(LowerAlpha, i, i)
    ELSE ch

RECURSIVE to_ascii_lowercase(_)
to_ascii_lowercase(s) ==
    IF Len(s) = 0 THEN ""
    ELSE lower_char(SubSeq(s, 1, 1)) \o to_ascii_lowercase(SubSeq(s, 2, Len(s)))

\* String::from_utf8(bytes) is Ok
is_utf8(bytes) == ~contains(bytes, NonUtf8)

write_bulk(val)   == [call |-> "write_bulk",   arg |-> val]
write_null        == [call |-> "write_null",   arg |-> ""]
write_string(str) == [call |-> "write_string", arg |-> str]
write_error(msg)  == [call |-> "write_error",  arg |-> msg]

\* what one call of kv_handler does: the map after it, the calls made on the
\* connection, whether it panicked and whether it did so holding the lock on db
KvOutcome(map, conn_writes, panicked, poisons) ==
    [db |-> map, writes |-> conn_writes, panicked |-> panicked, poisons |-> poisons]

\* main.rs:47-70
kv_get(parts, map, mutex_poisoned) ==
    IF ~IsBlob(parts[2])
    THEN KvOutcome(map, << write_error("ERR invalid GET args") >>, FALSE, FALSE)
    ELSE IF mutex_poisoned THEN KvOutcome(map, << >>, TRUE, FALSE)
    ELSE LET key == parts[2].data
             reply == IF IsSome(map[key]) THEN write_bulk(map[key][1]) ELSE write_null
         IN  KvOutcome(map, << reply >>, ~is_utf8(key), ~is_utf8(key))

\* main.rs:71-90
kv_set_key(parts, map, mutex_poisoned) ==
    IF ~(IsBlob(parts[2]) /\ IsBlob(parts[3]))
    THEN KvOutcome(map, << write_error("ERR invalid SET args") >>, FALSE, FALSE)
    ELSE IF mutex_poisoned THEN KvOutcome(map, << >>, TRUE, FALSE)
    ELSE LET key == parts[2].data
             val == parts[3].data
             bad == ~is_utf8(key) \/ ~is_utf8(val)
         IN  KvOutcome([map EXCEPT ![key] = Some(val)], << write_string("OK") >>,
                       bad, bad)

\* main.rs:91-100
kv_del(parts, map, mutex_poisoned) ==
    IF ~IsBlob(parts[2])
    THEN KvOutcome(map, << write_error("ERR invalid DEL args") >>, FALSE, FALSE)
    ELSE IF mutex_poisoned THEN KvOutcome(map, << >>, TRUE, FALSE)
    ELSE KvOutcome([map EXCEPT ![parts[2].data] = None], << write_string("OK") >>,
                   FALSE, FALSE)

\* main.rs:15-105, on a complete frame
kv_handler(frame, map, mutex_poisoned) ==
    IF frame.type # "Array"
    THEN KvOutcome(map, << write_error("ERR expected Array frame") >>, FALSE, FALSE)
    ELSE LET parts == frame.data
             n     == Len(parts)
         IN
         IF n = 0 \/ parts[1].type \notin {"BlobString", "SimpleString"}
         THEN KvOutcome(map, << write_error("ERR invalid command type") >>, FALSE, FALSE)
         ELSE LET cmd == to_ascii_lowercase(parts[1].data) IN
              CASE cmd = "get" /\ n = 2 -> kv_get(parts, map, mutex_poisoned)
                [] cmd = "set" /\ n = 3 -> kv_set_key(parts, map, mutex_poisoned)
                [] cmd = "del" /\ n = 2 -> kv_del(parts, map, mutex_poisoned)
                [] OTHER ->
                     KvOutcome(map,
                               << write_error("ERR unsupported command or wrong arg count") >>,
                               FALSE, FALSE)

KvGet(k)    == Array(<< Blob("GET"), Blob(k) >>)
KvSet(k, v) == Array(<< Blob("set"), Blob(k), Blob(v) >>)
KvDel(k)    == Array(<< Blob("DEL"), Blob(k) >>)

\* the requests clients of the key-value server send
KvFrames ==
    {KvGet(k) : k \in KvKeys}
    \cup {KvSet(k, v) : k \in KvKeys, v \in KvValues}
    \cup {KvDel(k) : k \in KvKeys}
    \cup {Array(<< Blob("GET") >>), Array(<< Blob("SET"), Blob("a"), Number("1") >>)}

\* what is known of a key from the requests answered so far
NeverSet    == [state |-> "never",   value |-> "", conn |-> 0]
Deleted     == [state |-> "deleted", value |-> "", conn |-> 0]
SetBy(c, v) == [state |-> "set",     value |-> v,  conn |-> c]

\* kv_set after connection c had frame answered with conn_writes
kv_set_after(known, c, frame, conn_writes) ==
    IF conn_writes # << write_string("OK") >> THEN known
    ELSE IF \E k \in KvKeys : frame = KvDel(k)
    THEN [known EXCEPT ![frame.data[2].data] = Deleted]
    ELSE [known EXCEPT ![frame.data[2].data] = SetBy(c, frame.data[3].data)]

KvInit ==
    /\ in_transaction = [c \in Conns |-> FALSE]
    /\ pipeline_buffer = [c \in Conns |-> << >>]
    /\ conn_state = [c \in Conns |-> "free"]
    /\ poisoned = FALSE
    /\ acked = [c \in Conns |-> << >>]
    /\ last = Observation("start", 0, NoFrame, FALSE, << >>, << >>, << >>, << >>, "no")
    /\ DriverOff
    /\ KvOff
    /\ PoolOff
    /\ CodecOff

\* server.command is called with a frame of connection c (main.rs:109)
KvHandle(c) ==
    /\ \E frame \in KvFrames :
        \E out \in {kv_handler(frame, db, db_poisoned)} :
            /\ db' = out.db
            /\ db_poisoned' = (db_poisoned \/ out.poisons)
            /\ kv_set' = kv_set_after(kv_set, c, frame, out.writes)
            /\ kv_last' = [frame |-> frame, conn |-> c, writes |-> out.writes,
                           panicked |-> out.panicked, was_set |-> kv_set]
    /\ UNCHANGED <<server_vars, driver_vars, pool_vars, codec_vars>>

KvNext == \E c \in Conns : KvHandle(c)

KvSpec == KvInit /\ [][KvNext]_vars

----------------------------------------------------------------------------
(* The runtime: connection tasks, the blocking pool and DATABASE_MUTEX *)

\* Every bridge call of handle_client_async is the closure of a
\* tokio::task::spawn_blocking (lib.rs:129, 151, 167, 189) whose JoinHandle
\* the task awaits.  The runtime of rust_init has one reactor thread
\* (worker_threads(1), lib.rs:36) that polls the tasks, and a blocking pool
\* of at most MAX_BLOCKING_THREADS threads (lib.rs:37) on which the closures
\* run; a closure that finds every pool thread busy waits in the pool's
\* queue.  A command answered without the engine (MULTI, DISCARD, a queued
\* command, an empty EXEC, an unparsable frame) leaves a task at its read
\* and is a stuttering step here.

\* the connection whose peer may stop reading its replies, so that the
\* write_all of a reply to it (lib.rs:137, 158, 174, 196) stays pending
SlowPeer == CHOOSE t \in Tasks : \A u \in Tasks : t <= u

\* the connection whose commands may carry a NUL, on which CString::new
\* fails and the unwrap of lib.rs:231 panics
NulSender == CHOOSE t \in Tasks : \A u \in Tasks : t >= u

\* the closures running on pool threads: started and not finished
busy_workers == Cardinality({t \in Tasks : task[t] \in {"started", "engine"}})

has_free_worker_unbounded(busy) == TRUE

\* the pool starts a queued closure while fewer than max_blocking_threads
\* closures are running (lib.rs:37)
has_free_worker(busy) == busy < MAX_BLOCKING_THREADS

lock_returns_while_held(m) == TRUE

\* DATABASE_MUTEX.lock() returns once no thread holds the mutex (lib.rs:215)
lock_returns(m) == ~m.held

PoolInit ==
    /\ in_transaction = [c \in Conns |-> FALSE]
    /\ pipeline_buffer = [c \in Conns |-> << >>]
    /\ conn_state = [c \in Conns |-> "free"]
    /\ poisoned = FALSE
    /\ acked = [c \in Conns |-> << >>]
    /\ last = Observation("start", 0, NoFrame, FALSE, << >>, << >>, << >>, << >>, "no")
    /\ DriverOff
    /\ KvOff
    /\ CodecOff
    /\ task = [t \in Tasks |-> "read"]
    /\ nul = [t \in Tasks |-> FALSE]
    /\ database_mutex = [held |-> FALSE, poisoned |-> FALSE]

\* the task of connection t has decoded a command that needs the engine and
\* hands the bridge call to the pool, then awaits it (lib.rs:129-131,
\* 151-153, 167-169, 189-191)
SpawnBlocking(t) ==
    /\ task[t] = "read"
    /\ \E carries_nul \in (IF t = NulSender THEN BOOLEAN ELSE {FALSE}) :
        nul' = [nul EXCEPT ![t] = carries_nul]
    /\ task' = [task EXCEPT ![t] = "queued"]
    /\ UNCHANGED <<database_mutex, server_vars, driver_vars, kv_vars, codec_vars>>

\* a pool thread takes the closure and enters call_cpp_batch_operation
\* (lib.rs:212)
WorkerTakes(t) ==
    /\ task[t] = "queued"
    /\ has_free_worker(busy_workers)
    /\ task' = [task EXCEPT ![t] = "started"]
    /\ UNCHANGED <<nul, database_mutex, server_vars, driver_vars, kv_vars, codec_vars>>

\* DATABASE_MUTEX.lock().unwrap() (lib.rs:215): on a poisoned mutex lock
\* returns Err and the unwrap panics, the guard inside the error is dropped
LockMutex(t) ==
    /\ task[t] = "started"
    /\ lock_returns(database_mutex)
    /\ IF database_mutex.poisoned
       THEN /\ task' = [task EXCEPT ![t] = "failed"]
            /\ nul' = [nul EXCEPT ![t] = FALSE]
            /\ UNCHANGED database_mutex
       ELSE /\ task' = [task EXCEPT ![t] = "engine"]
            /\ database_mutex' = [database_mutex EXCEPT !.held = TRUE]
            /\ UNCHANGED nul
    /\ UNCHANGED <<server_vars, driver_vars, kv_vars, codec_vars>>

\* the rest of call_cpp_batch_operation, with _lock alive (lib.rs:217-248):
\* CString::new panics on a NUL, which unwinds through _lock and poisons the
\* mutex; otherwise the engine call returns and _lock is dropped at the end
CallReturns(t) ==
    /\ task[t] = "engine"
    /\ task' = [task EXCEPT ![t] = IF nul[t] THEN "failed" ELSE "joined"]
    /\ database_mutex' = [held |-> FALSE,
                          poisoned |-> database_mutex.poisoned \/ nul[t]]
    /\ nul' = [nul EXCEPT ![t] = FALSE]
    /\ UNCHANGED <<server_vars, driver_vars, kv_vars, codec_vars>>

\* the JoinHandle yields the response, the reactor polls the task again and
\* it writes the reply (lib.rs:136-137, 155-159, 171-175, 195-196); the
\* write_all completes, or stays pending while the peer does not read
TaskResumes(t) ==
    /\ task[t] = "joined"
    /\ \E then \in (IF t = SlowPeer THEN {"read", "write"} ELSE {"read"}) :
        task' = [task EXCEPT ![t] = then]
    /\ UNCHANGED <<nul, database_mutex, server_vars, driver_vars, kv_vars, codec_vars>>

\* the JoinHandle yields a JoinError, map_err and ? return Err from
\* handle_client_async (lib.rs:131-133), the stream is dropped without a reply
TaskFails(t) ==
    /\ task[t] = "failed"
    /\ task' = [task EXCEPT ![t] = "closed"]
    /\ UNCHANGED <<nul, database_mutex, server_vars, driver_vars, kv_vars, codec_vars>>

PoolNext ==
    \E t \in Tasks :
        \/ SpawnBlocking(t)
        \/ WorkerTakes(t)
        \/ LockMutex(t)
        \/ CallReturns(t)
        \/ TaskResumes(t)
        \/ TaskFails(t)

PoolSpec == PoolInit /\ [][PoolNext]_vars

\* fair scheduling: a closure that can again and again get a pool thread or
\* the mutex gets it, an engine call returns, a woken task is polled
PoolFairness ==
    \A t \in Tasks :
        /\ SF_vars(WorkerTakes(t))
        /\ SF_vars(LockMutex(t))
        /\ WF_vars(CallReturns(t))
        /\ WF_vars(TaskResumes(t))
        /\ WF_vars(TaskFails(t))

PoolFairSpec == PoolInit /\ [][PoolNext]_vars /\ PoolFairness

----------------------------------------------------------------------------
(* The pure functions of lib.rs applied to drawn inputs *)

\* the elements a drawn request has after its opcode: string-like ones and
\* one that is not
ArgFrames == {Blob("a"), Blob("b"), Number("1")}

\* the most elements a drawn request has after its opcode: one more than the
\* key, field and value of an HSET
MaxArgs == 4

VariadicNames == {"LPUSH", "RPUSH", "SADD", "HMGET"}

\* the requests with opcode name and at most n elements after it
Requests(name, n) ==
    UNION {{Array(<< Blob(name) >> \o args) : args \in [1..k -> ArgFrames]} : k \in 0..n}

ParserInputs ==
    Requests("HSET", MaxArgs)
        \cup UNION {Requests(name, MaxArgs) : name \in VariadicNames}

\* the keys and values of drawn operations: plain ones and ones holding "\r\n"
BatchTexts == {"a", "b", "a" \o CRLF \o "a"}

BatchOperation == {Cmd("set", k, v) : k \in BatchTexts, v \in BatchTexts}

\* the longest drawn list of operations
MaxBatch == 2

BatchInputs == UNION {[1..n -> BatchOperation] : n \in 1..MaxBatch}

\* a bridge call and what the engine hands back for it
BridgeInputs ==
    UNION {[operations : {ops}, eng : EngineReturns(Len(ops))] : ops \in BatchInputs}

CodecInit ==
    /\ in_transaction = [c \in Conns |-> FALSE]
    /\ pipeline_buffer = [c \in Conns |-> << >>]
    /\ conn_state = [c \in Conns |-> "free"]
    /\ poisoned = FALSE
    /\ acked = [c \in Conns |-> << >>]
    /\ last = Observation("start", 0, NoFrame, FALSE, << >>, << >>, << >>, << >>, "no")
    /\ DriverOff
    /\ KvOff
    /\ PoolOff
    /\ input \in {Some([kind |-> "frame", arg |-> f]) : f \in ParserInputs}
                    \cup {Some([kind |-> "operations", arg |-> ops]) : ops \in BatchInputs}
                    \cup {Some([kind |-> "call", arg |-> call]) : call \in BridgeInputs}
    /\ output = None

\* parse_resp3_command(frame) (lib.rs:113)
ParseCommand ==
    /\ output = None
    /\ input[1].kind = "frame"
    /\ output' = Some(parse_resp3_command(input[1].arg))
    /\ UNCHANGED <<input, server_vars, driver_vars, kv_vars, pool_vars>>

\* the batch text call_cpp_batch_operation builds (lib.rs:217-227)
BuildBatch ==
    /\ output = None
    /\ input[1].kind = "operations"
    /\ output' = Some(batch_data(input[1].arg))
    /\ UNCHANGED <<input, server_vars, driver_vars, kv_vars, pool_vars>>

\* call_cpp_batch_operation on a free mutex (lib.rs:212-249)
CallBridge ==
    /\ output = None
    /\ input[1].kind = "call"
    /\ output' = Some(call_cpp_batch_operation(input[1].arg.operations,
                                                input[1].arg.eng, FALSE))
    /\ UNCHANGED <<input, server_vars, driver_vars, kv_vars, pool_vars>>

CodecNext == ParseCommand \/ BuildBatch \/ CallBridge

CodecSpec == CodecInit /\ [][CodecNext]_vars

----------------------------------------------------------------------------
(* Properties *)

\* the most recent step handled frame f
Handled(f) == last.event = "frame" /\ last.frame = f

IsErrorReply(r) == Len(r) > 0 /\ SubSeq(r, 1, 1) = "-"

\* the most recent step wrote exactly one reply, an error carrying msg
RepliedError(msg) ==
    /\ Len(last.replies) = 1
    /\ IsErrorReply(last.replies[1])
    /\ contains(last.replies[1], msg)

\* the most recent step left the connection's transaction state as it found it
TxnUnchanged ==
    /\ in_transaction[last.conn] = last.was_open
    /\ pipeline_buffer[last.conn] = last.was_queue

\* C1: a MULTI received while the transaction is open is answered with the error
\* "MULTI calls can not be nested" and leaves the transaction open and its queue
\* unchanged.
C1_NestedMultiRejected ==
    (Handled(F_MULTI) /\ last.was_open) =>
        /\ RepliedError("MULTI calls can not be nested")
        /\ in_transaction[last.conn]
        /\ pipeline_buffer[last.conn] = last.was_queue

\* C2: an EXEC received while no transaction is open is answered with the error
\* "EXEC without MULTI", makes no bridge call and leaves the transaction state
\* unchanged.
C2_ExecWithoutMultiRejected ==
    (Handled(F_EXEC) /\ ~last.was_open) =>
        /\ RepliedError("EXEC without MULTI")
        /\ last.calls = << >>
        /\ TxnUnchanged

\* C3: a DISCARD received while no transaction is open is answered with an error
\* reply, not +OK, and leaves the transaction state unchanged.
C3_DiscardWithoutMultiRejected ==
    (Handled(F_DISCARD) /\ ~last.was_open) =>
        /\ Len(last.replies) = 1
        /\ IsErrorReply(last.replies[1])
        /\ last.replies[1] # "+OK\r\n"
        /\ TxnUnchanged

\* C4: when the bridge reports overall failure for the batch EXEC submitted, the
\* reply written is exactly the null array *-1\r\n, whatever the batch size.
C4_FailedBatchRepliesNullArray ==
    (/\ Handled(F_EXEC)
     /\ Len(last.calls) = 1
     /\ ~last.calls[1].panicked
     /\ ~last.calls[1].response.success) =>
        last.replies = << "*-1\r\n" >>

\* C5: PING is answered +PONG in every transaction state; while a transaction is
\* open it is not appended to the queue and not answered +QUEUED.
C5_PingNeverQueued ==
    Handled(F_PING) =>
        /\ last.returned = "no" => last.replies = << "+PONG\r\n" >>
        /\ last.replies # << "+QUEUED\r\n" >>
        /\ last.was_open => pipeline_buffer[last.conn] = last.was_queue

\* one well-formed request for each opcode that addresses a key
KeyOnlyNames ==
    {"GET", "INCR", "DECR", "LPOP", "RPOP", "LLEN", "HGETALL", "DEL", "EXISTS", "TTL",
     "KEYS", "SMEMBERS", "SCARD"}
KeyValueNames ==
    {"SET", "INCRBY", "DECRBY", "HGET", "HDEL", "HEXISTS", "EXPIRE", "SISMEMBER",
     "SINTER", "SDIFF", "LPUSH", "RPUSH", "SADD", "HMGET"}
KeyAddressedFrames ==
    {Array(<< Blob(n), Blob("k") >>) : n \in KeyOnlyNames}
    \cup {Array(<< Blob(n), Blob("k"), Blob("v") >>) : n \in KeyValueNames}
    \cup {Array(<< Blob("LRANGE"), Blob("k"), Blob("0"), Blob("1") >>),
          Array(<< Blob("HSET"), Blob("k"), Blob("f"), Blob("v") >>)}
ParsedKeyAddressed == [f \in KeyAddressedFrames |-> parse_resp3_command(f)]

\* C6: while a transaction is open, a key-addressed command is appended to the end
\* of the connection's queue, is answered +QUEUED and causes no bridge call: this
\* is what the step just taken did with SET or GET, and what the handler would do
\* in the state reached with a request of any key-addressed opcode.  Until the
\* EXEC, the only operations handed to the bridge are WATCH and UNWATCH themselves.
C6_OpenQueuesKeyCommands ==
    /\ \A f \in {F_SET, F_GET} :
        (Handled(f) /\ last.was_open) =>
            /\ last.replies = << "+QUEUED\r\n" >>
            /\ last.calls = << >>
            /\ in_transaction[last.conn]
            /\ pipeline_buffer[last.conn] =
                   Append(last.was_queue,
                          IF f = F_SET THEN Cmd("set", "a", "1") ELSE Cmd("get", "a", "nil"))
    /\ \A c \in Conns :
        in_transaction[c] =>
            \A f \in KeyAddressedFrames, eng \in EngineReturns(1) :
                /\ IsSome(ParsedKeyAddressed[f])
                /\ handle_frame(TRUE, pipeline_buffer[c], ParsedKeyAddressed[f], eng,
                                poisoned)
                   = Outcome(TRUE, Append(pipeline_buffer[c], ParsedKeyAddressed[f][1]),
                             << "+QUEUED\r\n" >>, << >>, FALSE)
    /\ (last.event = "frame" /\ last.was_open /\ last.frame # F_EXEC) =>
           \A i \in 1..Len(last.calls) :
               \A j \in 1..Len(last.calls[i].operations) :
                   last.calls[i].operations[j].operation \in {"watch", "unwatch"}

\* a GET was queued behind a SET in an open transaction
C6_Witness ==
    /\ Handled(F_GET)
    /\ last.was_open
    /\ last.was_queue = << Cmd("set", "a", "1") >>
    /\ pipeline_buffer[last.conn] = << Cmd("set", "a", "1"), Cmd("get", "a", "nil") >>

C8_DiscardDropsQueue ==
    /\ (Handled(F_DISCARD) /\ last.was_open) =>
           /\ last.replies = << "+OK\r\n" >>
           /\ last.calls = << >>
           /\ ~in_transaction[last.conn]
           /\ pipeline_buffer[last.conn] = << >>
           /\ acked[last.conn] = << >>
    /\ Handled(F_EXEC) =>
           \A i \in 1..Len(last.calls) :
               \A j \in 1..Len(last.calls[i].operations) :
                   \E k \in 1..Len(last.was_acked) :
                       last.calls[i].operations[j] = last.was_acked[k]
    /\ \A c \in Conns :
           \A j \in 1..Len(pipeline_buffer[c]) :
               \E k \in 1..Len(acked[c]) : pipeline_buffer[c][j] = acked[c][k]

\* a DISCARD dropped two queued commands
C8_Witness ==
    /\ Handled(F_DISCARD)
    /\ last.was_open
    /\ Len(last.was_queue) = 2
    /\ pipeline_buffer[last.conn] = << >>
    /\ last.replies = << "+OK\r\n" >>

\* the frames of the model the parser rejects: unknown opcode, too few arguments,
\* wrong argument type
RejectedFrames == {F_FOO, F_GET_SHORT, F_GET_TYPE}

\* more requests the parser has to reject
RejectedSamples ==
    RejectedFrames \cup
    {Array(<< Blob("foo") >>),
     Array(<< Blob("SET"), Blob("k") >>),
     Array(<< Blob("SET"), Blob("k"), Number("1") >>),
     Array(<< Blob("HSET"), Blob("k"), Blob("f") >>),
     Array(<< Blob("LRANGE"), Blob("k"), Blob("0") >>),
     Array(<< Blob("LPUSH"), Blob("k") >>),
     Array(<< Blob("LPUSH"), Blob("k"), Number("1") >>),
     Array(<< Blob("WATCH") >>),
     Array(<< Number("1"), Blob("k") >>),
     Array(<< >>)}
ParsedRejected == [f \in RejectedSamples |-> parse_resp3_command(f)]

\* C9: a well-framed command the parser rejects has no effect other than one
\* immediate error reply: nothing is queued, no bridge call is made, the open flag
\* and the queue are unchanged and the connection keeps being served.  This is
\* what the step just taken did with a rejected frame, and what the handler would
\* do in the state reached, Idle or Open, with each of the rejected samples.
C9_RejectedCommandOnlyReplies ==
    /\ \A f \in RejectedFrames :
        Handled(f) =>
            /\ Len(last.replies) = 1
            /\ IsErrorReply(last.replies[1])
            /\ last.calls = << >>
            /\ TxnUnchanged
            /\ last.returned = "no"
            /\ conn_state[last.conn] = "serving"
    /\ \A c \in Conns :
        \A f \in RejectedSamples, eng \in EngineReturns(1) :
            LET out == handle_frame(in_transaction[c], pipeline_buffer[c],
                                    ParsedRejected[f], eng, poisoned)
            IN  /\ ~IsSome(ParsedRejected[f])
                /\ Len(out.replies) = 1
                /\ IsErrorReply(out.replies[1])
                /\ out.calls = << >>
                /\ out.open = in_transaction[c]
                /\ out.buf = pipeline_buffer[c]
                /\ ~out.err

\* an unknown command arrived in an open transaction holding a queued command
C9_Witness ==
    /\ Handled(F_FOO)
    /\ last.was_open
    /\ Len(last.was_queue) = 1
    /\ in_transaction[last.conn]
    /\ pipeline_buffer[last.conn] = last.was_queue

\* C10: the queue of a connection is non-empty only if the connection's
\* transaction is open, in every state a command finds and in every state a
\* command leaves.
C10_QueueOnlyWhenOpen ==
    /\ \A c \in Conns : pipeline_buffer[c] # << >> => in_transaction[c]
    /\ last.was_queue # << >> => last.was_open

\* an EXEC or a DISCARD has just reset a transaction that held queued commands
C10_Witness ==
    /\ last.event = "frame"
    /\ last.frame \in {F_EXEC, F_DISCARD}
    /\ last.was_open
    /\ last.was_queue # << >>
    /\ ~in_transaction[last.conn]
    /\ pipeline_buffer[last.conn] = << >>

\* the replies a decoded command may be given, by what it asks for
ReplyAnswers(frame, reply) ==
    LET parsed == parse_resp3_command(frame) IN
    IF ~IsSome(parsed) THEN IsErrorReply(reply)
    ELSE LET op == parsed[1].operation IN
         CASE op = "multi" -> reply = "+OK\r\n"
           [] op = "exec"  -> SubSeq(reply, 1, 1) = "*"
           [] op = "ping"  -> reply \in {"+PONG\r\n", "+QUEUED\r\n"}
           [] op = "get"   -> reply = "+QUEUED\r\n" \/ SubSeq(reply, 1, 1) \in {"$", "-"}
           [] op = "watch" -> reply \in {"+OK\r\n", "-ERR watch failed\r\n"}
           [] OTHER        -> FALSE

C12_FramingErrorClosesConnection ==
    decode_failed =>
        /\ pc = "closed"
        /\ Len(written) = Len(frames) + 1
        /\ IsErrorReply(written[Len(written)])

starts_with(s, prefix) == Len(prefix) <= Len(s) /\ SubSeq(s, 1, Len(prefix)) = prefix

ends_with(s, suffix) ==
    Len(suffix) <= Len(s) /\ SubSeq(s, Len(s) - Len(suffix) + 1, Len(s)) = suffix

\* the header of a reply array of n elements
array_header(n) == "*" \o ToString(n) \o CRLF

\* the engine reports success and hands back the results rs, one per operation
Succeeds(rs) == [success |-> TRUE, result_ptr |-> Some(join(rs, CRLF))]

\* the reply EXEC writes on connection c when the engine returns eng
exec_reply(c, eng) ==
    handle_frame(in_transaction[c], pipeline_buffer[c], Parsed[F_EXEC], eng,
                 poisoned).replies

\* C13: when the bridge call of an EXEC reports overall success, the reply is an
\* array with one element per queued command, the i-th being the outcome of the
\* i-th command: this is what the step just taken wrote, and what EXEC would write
\* in the state reached for every list of per-operation results, empty results
\* (a GET of a missing key) included.
C13_ExecReplyOneElementPerCommand ==
    /\ (/\ Handled(F_EXEC)
        /\ Len(last.calls) = 1
        /\ ~last.calls[1].panicked
        /\ last.calls[1].response.success) =>
           /\ Len(last.replies) = 1
           /\ starts_with(last.replies[1], array_header(Len(last.calls[1].operations)))
    /\ \A c \in Conns :
        (in_transaction[c] /\ pipeline_buffer[c] # << >> /\ ~poisoned) =>
            \A rs \in [1..Len(pipeline_buffer[c]) -> PerOpResults] :
                exec_reply(c, Succeeds(rs))
                    = << array_header(Len(rs)) \o exec_elements(rs) >>

\* what the engine's result text may hold for an operation that failed
FailedOpTexts == {"", "ERR", "ERR operation failed"}

\* the results of n operations, t for the i-th and OK for the others
results_with(n, i, t) == [j \in 1..n |-> IF j = i THEN t ELSE "OK"]

\* as many OK results as a bulk-string reply elements
ok_elements(n) == bulk_each([j \in 1..n |-> "OK"])

\* C14: when one operation of an otherwise successful batch fails, the EXEC reply
\* has an error element (-ERR ...) at that operation's position and the elements
\* of the other operations are what they are when every operation succeeds.
C14_FailedOperationIsErrorElement ==
    \A c \in Conns :
        (in_transaction[c] /\ pipeline_buffer[c] # << >> /\ ~poisoned) =>
            LET n == Len(pipeline_buffer[c]) IN
            \A i \in 1..n, t \in FailedOpTexts :
                LET replies == exec_reply(c, Succeeds(results_with(n, i, t)))
                    before  == array_header(n) \o ok_elements(i - 1)
                IN  /\ Len(replies) = 1
                    /\ starts_with(replies[1], before \o "-ERR")
                    /\ ends_with(replies[1], CRLF \o ok_elements(n - i))

\* the engine reports failure (with or without a result text)
Fails == {[success |-> FALSE, result_ptr |-> p] : p \in {None, Some(""), Some("OK")}}

\* the requests of the model that are forwarded to the bridge when sent outside
\* a transaction
ForwardedFrames == {F_PING, F_SET, F_GET, F_WATCH, F_UNWATCH}

\* C15: for a single command executed outside a transaction, whenever the bridge
\* call reports failure the client is written one error reply and the bridge call
\* was made once: this is what the step just taken did, and what the handler would
\* do in the state reached with a request of each key-addressed opcode.
C15_BridgeFailureIsErrorReply ==
    /\ \A f \in ForwardedFrames :
        (/\ Handled(f)
         /\ ~last.was_open
         /\ Len(last.calls) >= 1
         /\ ~last.calls[1].panicked
         /\ ~last.calls[1].response.success) =>
            /\ Len(last.calls) = 1
            /\ Len(last.replies) = 1
            /\ IsErrorReply(last.replies[1])
    /\ \A c \in Conns :
        (conn_state[c] = "serving" /\ ~in_transaction[c] /\ ~poisoned) =>
        \A f \in KeyAddressedFrames, eng \in Fails :
            LET out == handle_frame(FALSE, << >>, ParsedKeyAddressed[f], eng, poisoned)
            IN  /\ Len(out.calls) = 1
                /\ Len(out.replies) = 1
                /\ IsErrorReply(out.replies[1])


\* C16: on a connection the write_all calls made never outnumber the reads that
\* returned bytes.
C16_WritesBoundedByReads == writes <= reads

\* C17: however the client's bytes are split into reads, the frames handed to the
\* parser are those the decoder yields from the same bytes fed at once: always a
\* prefix of them, all of those contained in the bytes read so far whenever the
\* task is back at the read, each handed over once, and all of the stream's when
\* the client is done; and every one of them has been answered by then.
C17_ChunkInvariance ==
    /\ LET whole == all_frames(stream) IN
           /\ Len(frames) <= Len(whole)
           /\ \A i \in 1..Len(frames) : frames[i] = whole[i]
           /\ (pc = "closed" /\ Len(written) = Len(frames)) => frames = whole
    /\ pc = "read" =>
           /\ frames = all_frames(received)
           /\ Len(written) = Len(frames)

\* MULTI, GET a, EXEC arrived in four reads, so at least one frame arrived in
\* pieces, and three frames were handed to the parser
C17_Witness ==
    /\ stream = B_MULTI \o B_GET \o B_EXEC
    /\ wire = ""
    /\ pc = "read"
    /\ reads = Len(frames) + 1
    /\ frames = << Array(<< Simple("MULTI") >>),
                   Array(<< Simple("GET"), Blob("a") >>),
                   Array(<< Blob("EXEC") >>) >>
    /\ Len(written) = Len(frames)

\* C18: a GET of key k on a connection is answered with the bulk string v when
\* the latest SET or DEL of k answered since was SET k v on that connection, and
\* with nil when k has never been set.
C18_SetThenGet ==
    \A k \in KvKeys :
        kv_last.frame = KvGet(k) =>
            LET known == kv_last.was_set[k] IN
            /\ (known.state = "set" /\ known.conn = kv_last.conn) =>
                   kv_last.writes = << write_bulk(known.value) >>
            /\ known.state = "never" => kv_last.writes = << write_null >>

\* the engine reports success with the value v (a non-null result pointer), and
\* success with no value (a null result pointer)
Present(v) == [success |-> TRUE, result_ptr |-> Some(v)]
Absent == [success |-> TRUE, result_ptr |-> None]

\* the replies written to a request of KeyAddressedFrames named name, sent
\* outside a transaction, when the engine returns eng
single_reply(name, eng) ==
    LET f == CHOOSE g \in KeyAddressedFrames : g.data[1].data = name
    IN  handle_frame(FALSE, << >>, ParsedKeyAddressed[f], eng, poisoned).replies

\* C19: a result that is present with zero length is written as the empty bulk
\* string $0\r\n\r\n and only an absent value as nil $-1\r\n: for the single
\* replies of GET and HGET, for the elements of an HMGET reply, and for the
\* elements of an EXEC reply.
C19_EmptyIsNotMissing ==
    \A c \in Conns :
        /\ (conn_state[c] = "serving" /\ ~in_transaction[c] /\ ~poisoned) =>
               /\ \A name \in {"GET", "HGET"} :
                      /\ single_reply(name, Present("")) = << "$0\r\n\r\n" >>
                      /\ single_reply(name, Absent) = << "$-1\r\n" >>
               /\ single_reply("HMGET", Present("NULL,,v"))
                      = << array_header(3) \o "$-1\r\n" \o "$0\r\n\r\n" \o bulk("v") >>
        /\ (in_transaction[c] /\ pipeline_buffer[c] # << >> /\ ~poisoned) =>
               LET n == Len(pipeline_buffer[c]) IN
               \A i \in 1..n :
                   exec_reply(c, Succeeds(results_with(n, i, "")))
                       = << array_header(n) \o ok_elements(i - 1) \o "$0\r\n\r\n"
                            \o ok_elements(n - i) >>

\* the valid commands of the model whose arguments the bridge hand-off accepts
ValidFrames == {f \in Frames : IsSome(Parsed[f]) /\ f # F_WATCH_NUL}

\* C20: when the task of one connection has just ended with an error (a read
\* error, or a bridge task that panicked), every other connection being served
\* still gets one reply, and no error return, for each valid command it may send
\* next, whatever the engine returns; and a free slot still accepts a connection.
C20_FailuresStayLocal ==
    (last.event \in {"frame", "ioerr"} /\ last.returned = "err") =>
        \A b \in Conns \ {last.conn} :
            /\ conn_state[b] = "serving" =>
                   \A f \in ValidFrames :
                       \A eng \in EngineReturnsOf[submitted(in_transaction[b],
                                                            pipeline_buffer[b], Parsed[f])] :
                           LET out == handle_frame(in_transaction[b], pipeline_buffer[b],
                                                   Parsed[f], eng, poisoned)
                           IN  ~out.err /\ Len(out.replies) = 1
            /\ conn_state[b] = "free" => ENABLED Accept(b)


\* C21: under fair scheduling and an engine whose calls return, every command
\* that a connection has sent is eventually answered, whatever the other
\* connections send and whether or not their peers read.  Stated for the
\* connections that send no NUL and whose peer reads: a command handed to the
\* pool leads to the task back at its read with the reply written.
C21_EveryCommandAnswered ==
    \A t \in Tasks \ {SlowPeer, NulSender} :
        (task[t] = "queued") ~> (task[t] = "read")


\* the drawn input is a request with opcode name and it has been parsed
ParsedRequest(name) ==
    /\ IsSome(input) /\ input[1].kind = "frame"
    /\ input[1].arg.data[1].data = name
    /\ IsSome(output)

\* C22: the parser accepts HSET only as a request of exactly four elements
\* (opcode, key, one field, one value); with fewer or with more elements the
\* request is rejected.
C22_HsetExactlyFieldAndValue ==
    ParsedRequest("HSET") =>
        (IsSome(output[1]) => Len(input[1].arg.data) = 4)

\* the data of the elements of parts from position from on, all of them
RECURSIVE all_data(_, _)
all_data(parts, from) ==
    IF from > Len(parts) THEN << >>
    ELSE << parts[from].data >> \o all_data(parts, from + 1)

\* C23: LPUSH, RPUSH, SADD and HMGET are accepted only when the key and every
\* element after it is string-like and there is at least one such element;
\* then the auxiliary values are all of these elements, in order.  A request
\* with an element after the key that is not string-like is rejected.
C23_VariadicRejectsNonString ==
    \A name \in VariadicNames :
        ParsedRequest(name) =>
            LET parts == input[1].arg.data
            IN  /\ IsSome(output[1]) <=>
                       (Len(parts) >= 3 /\ \A i \in 2..Len(parts) : IsBlob(parts[i]))
                /\ IsSome(output[1]) =>
                       output[1][1].value = join(all_data(parts, 3), ",")


\* the drawn input is a list of operations and its batch text has been built
BuiltBatch ==
    /\ IsSome(input) /\ input[1].kind = "operations"
    /\ IsSome(output)

\* C27: the batch text determines the list of operations: no other list has
\* the same text, and the text split on "\r\n" and read three pieces at a
\* time is the list, also when a key or a value holds "\r\n".
C27_BatchTextDeterminesOperations ==
    BuiltBatch =>
        LET operations == input[1].arg
            pieces == split(output[1], CRLF)
        IN  /\ \A other \in BatchInputs :
                   batch_data(other) = output[1] => other = operations
            /\ Len(pieces) = 3 * Len(operations)
            /\ \A i \in 1..Len(operations) :
                   /\ pieces[3 * i - 2] = operations[i].operation
                   /\ pieces[3 * i - 1] = operations[i].key
                   /\ pieces[3 * i] = operations[i].value


\* the tasks whose bridge call is inside the engine, holding DATABASE_MUTEX
InEngine == {t \in Tasks : task[t] = "engine"}

\* C24: at any time at most one bridge call is inside the storage engine, and
\* DATABASE_MUTEX is held for as long as it is there; so the operations of
\* one connection's batch, which are one such call, are never interleaved
\* with an operation submitted by another connection.
C24_OneCallInsideEngine ==
    /\ Cardinality(InEngine) <= 1
    /\ InEngine # {} => database_mutex.held

\* a call is inside the engine while the closure of another connection is
\* running on a pool thread and waits at the lock
C24_Witness ==
    \E t \in Tasks, u \in Tasks :
        /\ t # u
        /\ task[t] = "engine"
        /\ task[u] = "started"
        /\ database_mutex.held

\* C25: bridge calls run on threads of the blocking pool: never more than
\* MAX_BLOCKING_THREADS of them are started and not finished, a further one
\* waits in the pool's queue, and the tasks awaiting them are suspended, so
\* that the reactor can take the next step of every other task: hand over a
\* new command, write a reply that has arrived, end a task whose call failed.
C25_PoolBoundsBridgeCalls ==
    /\ busy_workers <= MAX_BLOCKING_THREADS
    /\ \A t \in Tasks :
           /\ task[t] = "read" => ENABLED SpawnBlocking(t)
           /\ task[t] = "joined" => ENABLED TaskResumes(t)
           /\ task[t] = "failed" => ENABLED TaskFails(t)

\* the pool is full, one more closure waits for a thread
C25_Witness ==
    /\ busy_workers = MAX_BLOCKING_THREADS
    /\ \E t \in Tasks : task[t] = "queued"


\* the drawn input is a bridge call, it has been made and the engine returned
BridgeCalled ==
    /\ IsSome(input) /\ input[1].kind = "call"
    /\ IsSome(output)
    /\ ~output[1].panicked

\* C26: the result buffer the engine hands back is released with
\* cpp_free_string exactly once whenever the pointer is not null, whether the
\* call reported success or failure, and never when the pointer is null.
C26_ResultFreedExactlyOnce ==
    BridgeCalled =>
        output[1].freed = (IF IsSome(input[1].arg.eng.result_ptr) THEN 1 ELSE 0)


\* the WATCH and UNWATCH requests of the model
WatchFrames == {F_WATCH, F_WATCH_NUL, F_UNWATCH}

\* C28: a WATCH or UNWATCH, whether or not a transaction is open, is
\* submitted to the bridge at once as a batch of one, is answered +OK when the
\* bridge reports success and an error otherwise, is never queued, and leaves
\* the open flag and the queue of its connection as they were.
C28_WatchForwardedImmediately ==
    \A f \in WatchFrames :
        Handled(f) =>
            /\ Len(last.calls) = 1
            /\ last.calls[1].operations = << Parsed[f][1] >>
            /\ Len(last.replies) = 1
            /\ IF last.calls[1].response.success
               THEN last.replies[1] = "+OK\r\n"
               ELSE IsErrorReply(last.replies[1])
            /\ TxnUnchanged
            /\ acked[last.conn] = last.was_acked

\* C29: an EXEC received while a transaction is open with nothing queued is
\* answered with the empty array *0, makes no bridge call, and returns the
\* connection to Idle; the connection stays served.
C29_EmptyExecRepliesEmptyArray ==
    (Handled(F_EXEC) /\ last.was_open /\ last.was_queue = << >>) =>
        /\ last.replies = << "*0\r\n" >>
        /\ last.calls = << >>
        /\ last.returned = "no"
        /\ ~in_transaction[last.conn]
        /\ pipeline_buffer[last.conn] = << >>
        /\ conn_state[last.conn] = "serving"

\* an empty transaction was executed after DATABASE_MUTEX had been poisoned:
\* no bridge call was needed, the reply is still the empty array
C29_Witness ==
    /\ Handled(F_EXEC)
    /\ last.was_open
    /\ last.was_queue = << >>
    /\ poisoned
    /\ last.replies = << "*0\r\n" >>

====
